---- MODULE Spec2Model ----
(***************************************************************************)
(* Model of ai_models/deepfake_detector.py: the command-line entry point,  *)
(* detect(), get_frames(), the six analyzers and aggregate_features().     *)
(*                                                                         *)
(* Arithmetic is fixed point.  Feature scores are in thousandths           *)
(* (0.75 is 750), the probability is in hundredths of a percent point      *)
(* (50.0 is 5000), temporal variances are in hundredths.  Comparisons of   *)
(* std against a multiple of the mean are done on the squares, exactly.    *)
(*                                                                         *)
(* A frame is represented by its index in the source video.  What OpenCV   *)
(* measures on a frame (face boxes, optical flow, Laplacian variance, ...) *)
(* is an input of the analyzer that asks for it, drawn from a small family *)
(* of sample lists.  The frame rate, which is only copied into the output, *)
(* is left out.                                                            *)
(***************************************************************************)
EXTENDS Integers, Sequences, FiniteSets

VARIABLES
    pc,           \* position of the process in __main__ / detect
    hasArg,       \* len(sys.argv) >= 2
    pathExists,   \* os.path.exists(video_path)
    canOpen,      \* cv2.VideoCapture could open the file
    total,        \* frame count of the container (CAP_PROP_FRAME_COUNT)
    decodable,    \* cap.read() succeeds for source indices below this
    faceEnd,      \* detect_faces_haar finds a face in source frames below this
    fault,        \* the stage at which a library call raises, or "none"
    frames,       \* the sampled frames (source indices), as get_frames returns
    scores,       \* analyzer name -> score, for the analyzers that have run
    probability,  \* aggregate_features' probability
    result,       \* what detect returned
    stdout,       \* the JSON objects printed on standard output
    exitCode,     \* the process exit code, once exited
    arg,          \* input of an analyzer checked on its own
    out           \* its output

vars == <<pc, hasArg, pathExists, canOpen, total, decodable, faceEnd, fault,
          frames, scores, probability, result, stdout, exitCode, arg, out>>

----------------------------------------------------------------------------
(* Bounds of the model *)

MaxTotal == 9          \* longest short video of a full run
LongVideo == 90        \* a video longer than max_frames, given a full run
MaxSourceFrames == 165 \* longest video given to get_frames on its own
MaxDelta == 80         \* largest colour shift between two face crops

(* Constants of the program *)

max_frames == 80
MinFrames == 5
MotionMinFrames == 6
MotionMinSamples == 3
MotionWindow == 30
ColorWindow == 40
ColorMinSamples == 5
SharpWindow == 35
SharpMinSamples == 5
FreqWindow == 25
FreqMinSamples == 3
SizeWindow == 50
SizeMinSamples == 5
HistWindow == 30
HistMinSamples == 5
HistBins == 32
BlurThreshold == 50
Neutral == 500

----------------------------------------------------------------------------
(* Helpers *)

Min(a, b) == IF a < b THEN a ELSE b
Max(a, b) == IF a > b THEN a ELSE b

RECURSIVE SumUpTo(_, _)
SumUpTo(xs, n) == IF n = 0 THEN 0 ELSE xs[n] + SumUpTo(xs, n - 1)

Sum(xs) == SumUpTo(xs, Len(xs))

SumSq(xs) == Sum([i \in 1..Len(xs) |-> xs[i] * xs[i]])

\* n^2 times the population variance of xs (np.std squared, times n^2)
Dev(xs) == LET s == Sum(xs) IN Len(xs) * SumSq(xs) - s * s

RECURSIVE SqrtSearch(_, _, _)
SqrtSearch(x, lo, hi) ==
    IF lo >= hi THEN lo
    ELSE LET mid == (lo + hi + 1) \div 2
         IN IF mid * mid <= x THEN SqrtSearch(x, mid, hi)
            ELSE SqrtSearch(x, lo, mid - 1)

\* floor of the square root
Isqrt(x) == SqrtSearch(x, 0, Min(x, 46340))

\* a list of n samples, the first k at hi and the rest at lo
Mixed(n, k, lo, hi) == [i \in 1..n |-> IF i <= k THEN hi ELSE lo]

\* how many of the n samples differ from the rest
Splits(n) == {0, 1, n \div 2} \cap 0..n

----------------------------------------------------------------------------
(* get_frames *)

\* np.linspace(0, total-1, n, dtype=int): n >= 2 indices, truncated
Linspace(tot, n) == [i \in 1..n |-> ((i - 1) * (tot - 1)) \div (n - 1)]

\* a leading window instead of the whole timeline
FrameIndicesLeading(tot, maxf) == [i \in 1..Min(tot, maxf) |-> i - 1]

\* the source indices get_frames asks the decoder for
FrameIndices(tot, maxf) ==
    IF tot <= maxf THEN [i \in 1..tot |-> i - 1] ELSE Linspace(tot, maxf)

\* cap.read() after cap.set(POS_FRAMES, idx): ret is true below `readable`
ReadOk(idx, readable) == idx < readable

\* the frames appended, in order: those whose read succeeded
get_frames(tot, maxf, readable) ==
    SelectSeq(FrameIndices(tot, maxf), LAMBDA idx : ReadOk(idx, readable))

\* CAP_PROP_FRAME_COUNT of a capture that did not open is 0
FrameCount == IF canOpen THEN total ELSE 0

----------------------------------------------------------------------------
(* detect_faces_haar and the per-analyzer windows *)

HasFace(idx) == idx < faceEnd

\* frames[:window] that yield a face, as each analyzer's loop collects them
FaceFrames(fs, window) ==
    SelectSeq(SubSeq(fs, 1, Min(Len(fs), window)), HasFace)

NoFaceDetected == \A i \in 1..Len(frames) : ~HasFace(frames[i])

----------------------------------------------------------------------------
(* analyze_color_stability *)

\* the six statistics of one face crop: channel means shifted by d, stds
CropStats(d) == <<100 + d, 110 + d, 120 + d, 20, 20, 20>>

Column(features, j) == [i \in 1..Len(features) |-> features[i][j]]

\* np.std of a column, in hundredths
Std100(xs) == (5 * Isqrt(400 * Dev(xs))) \div Len(xs)

\* np.mean of the six column stds, in hundredths
TemporalVariance(features) ==
    Sum([j \in 1..6 |-> Std100(Column(features, j))]) \div 6

\* saturating at 25 instead of 15
ColorScoreSlow(v) == Min(1000, Max(0, (v - 500) \div 2))

\* min(1.0, max(0.0, (v - 5) / 10)), v in hundredths, score in thousandths
ColorScore(v) == Min(1000, Max(0, v - 500))

\* the fallback returning 0.0 instead of 0.5
analyze_color_stability_zero(features) ==
    IF Len(features) < ColorMinSamples THEN 0
    ELSE ColorScore(TemporalVariance(features))

analyze_color_stability(features) ==
    IF Len(features) < ColorMinSamples THEN Neutral
    ELSE ColorScore(TemporalVariance(features))

----------------------------------------------------------------------------
(* analyze_motion_consistency; flow magnitudes in hundredths of a pixel *)

\* the consecutive pairs the loop range(1, min(len(frames), 30)) visits
FlowPairs(fs) == Max(0, Min(Len(fs), MotionWindow) - 1)

\* the two suspicious values exchanged
MotionThresholdSwapped(flow) ==
    IF 16 * Dev(flow) < Sum(flow) * Sum(flow) THEN 700
    ELSE IF 4 * Dev(flow) > 25 * Sum(flow) * Sum(flow) THEN 750
    ELSE 300

\* the three-way threshold on variance_ratio = flow_std / flow_mean
MotionThreshold(flow) ==
    IF 16 * Dev(flow) < Sum(flow) * Sum(flow) THEN 750
    ELSE IF 4 * Dev(flow) > 25 * Sum(flow) * Sum(flow) THEN 700
    ELSE 300

analyze_motion_consistency(fs, flow) ==
    IF Len(fs) < MotionMinFrames THEN Neutral
    ELSE IF Len(flow) < MotionMinSamples THEN Neutral
    ELSE IF Sum(flow) < Len(flow) THEN Neutral
    ELSE MotionThreshold(flow)

----------------------------------------------------------------------------
(* analyze_sharpness_consistency; Laplacian variances *)

\* returning blur_score where 0.3 is due
analyze_sharpness_blur_only(values) ==
    IF Len(values) < SharpMinSamples THEN Neutral
    ELSE LET blur_score ==
                 IF Sum(values) < BlurThreshold * Len(values) THEN 600 ELSE 0
         IN IF 4 * Dev(values) > Sum(values) * Sum(values)
            THEN Max(blur_score, 700)
            ELSE blur_score

analyze_sharpness_consistency(values) ==
    IF Len(values) < SharpMinSamples THEN Neutral
    ELSE LET blur_score ==
                 IF Sum(values) < BlurThreshold * Len(values) THEN 600 ELSE 0
         IN IF 4 * Dev(values) > Sum(values) * Sum(values)
            THEN Max(blur_score, 700)
            ELSE IF blur_score > 400 THEN blur_score ELSE 300

----------------------------------------------------------------------------
(* analyze_frequency_spectrum; high_freq_ratio in thousandths *)

analyze_frequency_spectrum(ratios) ==
    IF Len(ratios) < FreqMinSamples THEN Neutral
    ELSE IF Sum(ratios) < 400 * Len(ratios) THEN 700
    ELSE IF Sum(ratios) > 600 * Len(ratios) THEN 300
    ELSE 500

----------------------------------------------------------------------------
(* analyze_face_size_stability; padded face boxes <<x1, y1, x2, y2>> *)

BoxArea(box) == (box[3] - box[1]) * (box[4] - box[2])

\* std_size / mean_size, in thousandths
CoeffVar1000(sizes) == (100 * Isqrt(100 * Dev(sizes))) \div Sum(sizes)

analyze_face_size_stability(boxes) ==
    LET sizes == [i \in 1..Len(boxes) |-> BoxArea(boxes[i])]
    IN IF Len(sizes) < SizeMinSamples THEN Neutral
       ELSE IF Sum(sizes) = 0 THEN Neutral
       ELSE Min(1000, Max(0, (CoeffVar1000(sizes) - 100) * 5))

----------------------------------------------------------------------------
(* analyze_histogram_consistency *)

HistDims == 1..(3 * HistBins)

\* cv2.calcHist per channel, concatenated: the pixel counts of a crop of
\* 100 pixels, all of them in bin b of every channel
BinCount(b, d) == IF ((d - 1) % HistBins) + 1 = b THEN 100 ELSE 0

\* hist.flatten() / hist.sum() per channel, in thousandths; hist.sum() is
\* the number of pixels of the crop
CropHistogram(b) ==
    LET hsum == BinCount(b, b)
    IN [d \in HistDims |-> (BinCount(b, d) * 1000) \div hsum]

\* np.std over the frames of one histogram dimension, in thousandths
HistStd(histograms, d) ==
    Isqrt(Dev([i \in 1..Len(histograms) |-> histograms[i][d]]))
        \div Len(histograms)

\* without the cap at 1.0
analyze_histogram_uncapped(histograms) ==
    IF Len(histograms) < HistMinSamples THEN Neutral
    ELSE (Sum([d \in HistDims |-> HistStd(histograms, d)]) * 1000)
             \div (3 * HistBins * 80)

\* min(1.0, temporal_var / 0.08)
analyze_histogram_consistency(histograms) ==
    IF Len(histograms) < HistMinSamples THEN Neutral
    ELSE LET stds == [d \in HistDims |-> HistStd(histograms, d)]
         IN Min(1000, (Sum(stds) * 1000) \div (3 * HistBins * 80))

----------------------------------------------------------------------------
(* aggregate_features and the verdict of detect *)

Analyzers ==
    {"color", "motion", "sharpness", "frequency", "stability", "histogram"}

\* the weights, in tenths
Weight(a) == IF a \in {"stability", "histogram"} THEN 1 ELSE 2

\* float(combined_score * 100), in hundredths
Combine(sc) ==
    Weight("color") * sc["color"] + Weight("motion") * sc["motion"]
    + Weight("sharpness") * sc["sharpness"]
    + Weight("frequency") * sc["frequency"]
    + Weight("stability") * sc["stability"]
    + Weight("histogram") * sc["histogram"]

\* probability >= 50
IsDeepfakeInclusive(p) == p >= 5000

\* bool(probability > 50)
IsDeepfake(p) == p > 5000

\* int(probability if is_deepfake else 100 - probability): int() truncates
Confidence(p) == IF IsDeepfake(p) THEN p \div 100 ELSE (10000 - p) \div 100

----------------------------------------------------------------------------
(* Records printed on standard output *)

NoResult == [none |-> TRUE]

ErrorResult(msg) == [error |-> msg]

NoPathMessage == "No video path provided"
NotFoundMessage == "File not found"
TooShortMessage == "Video too short (need at least 5 frames)"

\* {"error": str(e), "traceback": str(e)}
ExceptionResult == [error |-> "exception", traceback |-> "exception"]

SuccessResult(p, sc, fs) ==
    [type |-> "video",
     isDeepfake |-> IsDeepfake(p),
     confidence |-> Confidence(p),
     details |-> [color_stability |-> sc["color"],
                  motion_consistency |-> sc["motion"],
                  sharpness_quality |-> sc["sharpness"],
                  frequency_artifacts |-> sc["frequency"],
                  face_stability |-> sc["stability"],
                  histogram_consistency |-> sc["histogram"],
                  frames_analyzed |-> Len(fs)],
     method |-> "opencv-only-ensemble"]

IsSuccess(r) == "isDeepfake" \in DOMAIN r
IsError(r) == "error" \in DOMAIN r

\* len(frames) <= 5
TooShortInclusive(fs) == Len(fs) <= MinFrames

\* len(frames) < 5 in detect
TooShort(fs) == Len(fs) < MinFrames

\* the score of analyzer a recorded
Put(sc, a, v) ==
    [x \in DOMAIN sc \cup {a} |-> IF x = a THEN v ELSE sc[x]]

----------------------------------------------------------------------------
(* Families of measurements *)

ColorDeltas == {0, MaxDelta \div 2, MaxDelta}
FlowLevels == {<<0, 100>>, <<100, 120>>, <<0, 1>>, <<5, 40>>}
SharpLevels == {<<30, 40>>, <<10, 200>>, <<100, 120>>, <<100, 900>>}
RatioLevels == {<<300, 350>>, <<450, 550>>, <<700, 900>>}
BoxWidths == {<<5, 5>>, <<5, 6>>, <<5, 10>>}
HistModes == {"static", "flicker", "drift"}

FaceBox(w) == <<0, 0, w, w>>

\* the bin holding the pixels of the i-th face crop of n
HistBinOf(mode, i, n) ==
    IF mode = "static" THEN 1
    ELSE IF mode = "flicker" THEN (IF i <= n \div 2 THEN 2 ELSE 1)
    ELSE ((i - 1) % HistBins) + 1

----------------------------------------------------------------------------
(* The run: __main__ and detect *)

\* __main__, lines 346-351
Main ==
    /\ pc = "main"
    /\ IF ~hasArg
       THEN /\ stdout' = Append(stdout, ErrorResult(NoPathMessage))
            /\ exitCode' = 1
            /\ pc' = "exited"
       ELSE /\ pc' = "exists"
            /\ UNCHANGED <<stdout, exitCode>>
    /\ UNCHANGED <<hasArg, pathExists, canOpen, total, decodable, faceEnd,
                   fault, frames, scores, probability, result, arg, out>>

\* detect, lines 322-325
CheckExists ==
    /\ pc = "exists"
    /\ IF ~pathExists
       THEN /\ result' = ErrorResult(NotFoundMessage)
            /\ pc' = "emit"
       ELSE /\ pc' = "sample"
            /\ UNCHANGED result
    /\ UNCHANGED <<hasArg, pathExists, canOpen, total, decodable, faceEnd,
                   fault, frames, scores, probability, stdout, exitCode,
                   arg, out>>

\* detect, line 327
Sample ==
    /\ pc = "sample"
    /\ fault # "sample"
    /\ frames' = get_frames(FrameCount, max_frames, decodable)
    /\ pc' = "gate"
    /\ UNCHANGED <<hasArg, pathExists, canOpen, total, decodable, faceEnd,
                   fault, scores, probability, result, stdout, exitCode,
                   arg, out>>

\* detect, lines 329-330
Gate ==
    /\ pc = "gate"
    /\ IF TooShort(frames)
       THEN /\ result' = ErrorResult(TooShortMessage)
            /\ pc' = "emit"
       ELSE /\ pc' = "color"
            /\ UNCHANGED result
    /\ UNCHANGED <<hasArg, pathExists, canOpen, total, decodable, faceEnd,
                   fault, frames, scores, probability, stdout, exitCode,
                   arg, out>>

\* an analyzer has returned v
Scored(a, next, v) ==
    /\ scores' = Put(scores, a, v)
    /\ pc' = next
    /\ UNCHANGED <<hasArg, pathExists, canOpen, total, decodable, faceEnd,
                   fault, frames, probability, result, stdout, exitCode,
                   arg, out>>

\* aggregate_features, line 269
AnalyzeColor ==
    /\ pc = "color"
    /\ fault # "color"
    /\ LET n == Len(FaceFrames(frames, ColorWindow))
       IN \E k \in Splits(n), d \in ColorDeltas :
              Scored("color", "motion",
                     analyze_color_stability(
                         Mixed(n, k, CropStats(0), CropStats(d))))

\* aggregate_features, line 272
AnalyzeMotion ==
    /\ pc = "motion"
    /\ fault # "motion"
    /\ LET n == FlowPairs(frames)
       IN \E k \in 0..n, lv \in FlowLevels :
              Scored("motion", "sharpness",
                     analyze_motion_consistency(
                         frames, Mixed(n, k, lv[1], lv[2])))

\* aggregate_features, line 275
AnalyzeSharpness ==
    /\ pc = "sharpness"
    /\ fault # "sharpness"
    /\ LET n == Len(FaceFrames(frames, SharpWindow))
       IN \E k \in Splits(n), lv \in SharpLevels :
              Scored("sharpness", "frequency",
                     analyze_sharpness_consistency(
                         Mixed(n, k, lv[1], lv[2])))

\* aggregate_features, line 278; a black crop (total_energy = 0) gives no
\* sample: m of the n face crops are not black
AnalyzeFrequency ==
    /\ pc = "frequency"
    /\ fault # "frequency"
    /\ LET n == Len(FaceFrames(frames, FreqWindow))
       IN \E m \in {0, n}, lv \in RatioLevels :
              \E k \in Splits(m) :
                  Scored("frequency", "stability",
                         analyze_frequency_spectrum(
                             Mixed(m, k, lv[1], lv[2])))

\* aggregate_features, line 281
AnalyzeStability ==
    /\ pc = "stability"
    /\ fault # "stability"
    /\ LET n == Len(FaceFrames(frames, SizeWindow))
       IN \E k \in Splits(n), w \in BoxWidths :
              Scored("stability", "histogram",
                     analyze_face_size_stability(
                         Mixed(n, k, FaceBox(w[1]), FaceBox(w[2]))))

\* aggregate_features, line 284
AnalyzeHistogram ==
    /\ pc = "histogram"
    /\ fault # "histogram"
    /\ LET n == Len(FaceFrames(frames, HistWindow))
       IN \E mode \in HistModes :
              Scored("histogram", "aggregate",
                     analyze_histogram_consistency(
                         [i \in 1..n |->
                              CropHistogram(HistBinOf(mode, i, n))]))

\* aggregate_features, lines 287-318
Aggregate ==
    /\ pc = "aggregate"
    /\ probability' = Combine(scores)
    /\ pc' = "verdict"
    /\ UNCHANGED <<hasArg, pathExists, canOpen, total, decodable, faceEnd,
                   fault, frames, scores, result, stdout, exitCode, arg, out>>

\* detect, lines 334-343
Verdict ==
    /\ pc = "verdict"
    /\ result' = SuccessResult(probability, scores, frames)
    /\ pc' = "emit"
    /\ UNCHANGED <<hasArg, pathExists, canOpen, total, decodable, faceEnd,
                   fault, frames, scores, probability, stdout, exitCode,
                   arg, out>>

\* __main__, lines 354-357: whatever detect returned is printed, exit 0
Emit ==
    /\ pc = "emit"
    /\ stdout' = Append(stdout, result)
    /\ exitCode' = 0
    /\ pc' = "exited"
    /\ UNCHANGED <<hasArg, pathExists, canOpen, total, decodable, faceEnd,
                   fault, frames, scores, probability, result, arg, out>>

\* __main__, lines 358-361: a library call of the stage `fault` raised
Except ==
    /\ pc = fault
    /\ stdout' = Append(stdout, ExceptionResult)
    /\ exitCode' = 1
    /\ pc' = "exited"
    /\ UNCHANGED <<hasArg, pathExists, canOpen, total, decodable, faceEnd,
                   fault, frames, scores, probability, result, arg, out>>

----------------------------------------------------------------------------
(* Specifications *)

NoCall == <<>>
NoExit == 0 - 1

InitRun(faults, totals) ==
    /\ pc = "main"
    /\ hasArg \in BOOLEAN
    /\ pathExists \in BOOLEAN
    /\ canOpen \in BOOLEAN
    /\ total \in totals
    /\ decodable \in {total, total \div 2}
    /\ faceEnd \in 0..Min(total, MinFrames) \cup {total}
    /\ fault \in faults
    /\ frames = <<>>
    /\ scores = <<>>
    /\ probability = 0
    /\ result = NoResult
    /\ stdout = <<>>
    /\ exitCode = NoExit
    /\ arg = NoCall
    /\ out = NoCall

Init == InitRun({"none"}, 0..MaxTotal \cup {LongVideo})

Next ==
    \/ Main \/ CheckExists \/ Sample \/ Gate
    \/ AnalyzeColor \/ AnalyzeMotion \/ AnalyzeSharpness
    \/ AnalyzeFrequency \/ AnalyzeStability \/ AnalyzeHistogram
    \/ Aggregate \/ Verdict \/ Emit

\* runs in which every library call returns
Spec == Init /\ [][Next]_vars

InitExc == InitRun({"none", "sample"} \cup Analyzers, 0..MinFrames)

NextExc == Next \/ Except

\* runs in which a library call of one stage may raise
SpecExc == InitExc /\ [][NextExc]_vars

----------------------------------------------------------------------------
(* get_frames on long videos: the run up to the frame-count gate *)

InitSampler ==
    /\ InitRun({"none"}, 0..MaxSourceFrames)
    /\ hasArg
    /\ pathExists
    /\ faceEnd = 0

NextSampler == Main \/ CheckExists \/ Sample \/ Gate

SpecSampler == InitSampler /\ [][NextSampler]_vars

----------------------------------------------------------------------------
(* The analyzers and the verdict as functions of their inputs *)

InitCall(args) ==
    /\ pc = "call"
    /\ arg \in args
    /\ out = NoCall
    /\ hasArg = TRUE
    /\ pathExists = TRUE
    /\ canOpen = TRUE
    /\ total = 0
    /\ decodable = 0
    /\ faceEnd = 0
    /\ fault = "none"
    /\ frames = <<>>
    /\ scores = <<>>
    /\ probability = 0
    /\ result = NoResult
    /\ stdout = <<>>
    /\ exitCode = NoExit

Returned(v) ==
    /\ out' = v
    /\ pc' = "ret"
    /\ UNCHANGED <<hasArg, pathExists, canOpen, total, decodable, faceEnd,
                   fault, frames, scores, probability, result, stdout,
                   exitCode, arg>>

\* two lists of face-crop statistics, each of at least ColorMinSamples
ColorLists ==
    {Mixed(n, k, CropStats(0), CropStats(d)) :
         n \in {ColorMinSamples, ColorMinSamples + 1},
         k \in {1, 2, 3},
         d \in {x \in 0..MaxDelta : x % 8 = 0}}

CallColor ==
    /\ pc = "call"
    /\ Returned(<<analyze_color_stability(arg[1]),
                  analyze_color_stability(arg[2])>>)

SpecColor == InitCall(ColorLists \X ColorLists) /\ [][CallColor]_vars

\* the frames detect hands over (at least MinFrames) and their flow
MotionInputs ==
    {[frames |-> [i \in 1..n |-> i - 1],
      flow |-> Mixed(FlowPairs([i \in 1..n |-> i - 1]), k, lv[1], lv[2])] :
         n \in MinFrames..MaxTotal, k \in 0..MaxTotal, lv \in FlowLevels}

CallMotion ==
    /\ pc = "call"
    /\ Returned(analyze_motion_consistency(arg.frames, arg.flow))

SpecMotion == InitCall(MotionInputs) /\ [][CallMotion]_vars

\* the probabilities aggregate_features can return, in hundredths
CallVerdict ==
    /\ pc = "call"
    /\ Returned([isDeepfake |-> IsDeepfake(arg),
                 confidence |-> Confidence(arg)])

SpecVerdict == InitCall(1800..8300) /\ [][CallVerdict]_vars

----------------------------------------------------------------------------
(* Properties *)

Exited == pc = "exited"

\* the run got past get_frames
Sampled == hasArg /\ pathExists /\ pc \notin {"main", "exists", "sample"}

\* detect has returned
DetectReturned == Sampled /\ pc \in {"emit", "exited"}

FaceAnalyzers == Analyzers \ {"motion"}

\* C1: the process exits 0 only when a success record was produced and 1
\* on any error (no argument, path not found, too few frames, exception),
\* and exactly one JSON object is printed in every case.
C1_ExitCodeContract ==
    Exited =>
        /\ Len(stdout) = 1
        /\ exitCode \in {0, 1}
        /\ (exitCode = 0 <=> IsSuccess(stdout[1]))
        /\ (exitCode = 1 <=> IsError(stdout[1]))

\* C2: a run whose sampled sequence has fewer than 5 frames ends with the
\* structured error and never executes an analyzer; a run with 5 or more
\* frames executes the six analyzers and returns a success record.
C2_FrameGate ==
    /\ (Sampled /\ Len(frames) < 5) =>
           /\ scores = <<>>
           /\ pc \in {"gate", "emit", "exited"}
           /\ (pc # "gate" => result = ErrorResult(TooShortMessage))
           /\ (Exited => stdout = <<ErrorResult(TooShortMessage)>>)
    /\ (Sampled /\ Len(frames) >= 5) =>
           /\ pc \notin {"gate", "emit", "exited"} => ~IsError(result)
           /\ pc \in {"emit", "exited"} =>
                  /\ DOMAIN scores = Analyzers
                  /\ IsSuccess(result)
                  /\ result.details.frames_analyzed = Len(frames)
           /\ (Exited => stdout = <<result>>)

C2_Witness ==
    /\ Exited
    /\ Len(frames) = 5
    /\ IsSuccess(stdout[1])
    /\ DOMAIN scores = Analyzers

\* C3 as stated: with no face detected in any sampled frame (and at least
\* 5 frames) the face-dependent analyzers return exactly 0.5, the
\* probability is exactly 50.0 and the confidence exactly 50.
C3_NoFaceNeutral ==
    (DetectReturned /\ IsSuccess(result) /\ NoFaceDetected) =>
        /\ \A a \in FaceAnalyzers : scores[a] = 500
        /\ probability = 5000
        /\ result.confidence = 50

\* C3 amended: with no face detected the five face-dependent analyzers
\* return exactly 0.5; the probability is 40 + 20 * motion score, which is
\* 50.0 with confidence 50 exactly when MotionConsistency returns 0.5 too.
C3_NoFaceNeutralUpToMotion ==
    NoFaceDetected =>
        /\ \A a \in FaceAnalyzers \cap DOMAIN scores : scores[a] = 500
        /\ (DetectReturned /\ IsSuccess(result)) =>
               /\ probability = 4000 + 2 * scores["motion"]
               /\ (scores["motion"] = 500 =>
                       probability = 5000 /\ result.confidence = 50)
               /\ (scores["motion"] # 500 => probability # 5000)

C3_Witness ==
    /\ Exited
    /\ IsSuccess(stdout[1])
    /\ NoFaceDetected
    /\ Len(frames) >= 6
    /\ scores["motion"] = 500
    /\ stdout[1].confidence = 50

\* C4: in every successful run each of the six feature scores lies in
\* [0,1], the probability in [0,100] and the confidence in [0,100].
C4_Ranges ==
    /\ \A a \in DOMAIN scores : scores[a] >= 0 /\ scores[a] <= 1000
    /\ (DetectReturned /\ IsSuccess(result)) =>
           /\ DOMAIN scores = Analyzers
           /\ probability >= 0 /\ probability <= 10000
           /\ result.confidence >= 0 /\ result.confidence <= 100

\* a run with 4 face samples: four analyzers fall back on 0.5 for lack of
\* samples while frequency (3 suffice) and motion do not
C4_Witness ==
    /\ Exited
    /\ IsSuccess(stdout[1])
    /\ Len(FaceFrames(frames, ColorWindow)) = 4
    /\ scores["color"] = 500
    /\ scores["histogram"] = 500
    /\ scores["frequency"] = 700
    /\ scores["motion"] = 750

\* C5 as stated: the verdict is true exactly when probability > 50 and the
\* confidence is probability (verdict true) or 100 - probability (verdict
\* false) rounded to the nearest integer.
C5_NearestInteger ==
    pc = "ret" =>
        LET x == IF arg > 5000 THEN arg ELSE 10000 - arg
        IN /\ out.isDeepfake = (arg > 5000)
           /\ 100 * out.confidence - x <= 50
           /\ x - 100 * out.confidence <= 50

\* C5 amended: the verdict is true exactly when probability > 50 and the
\* confidence is probability or 100 - probability truncated to an integer
\* (rounded down).
C5_Truncated ==
    pc = "ret" =>
        LET x == IF arg > 5000 THEN arg ELSE 10000 - arg
        IN /\ out.isDeepfake = (arg > 5000)
           /\ 100 * out.confidence <= x
           /\ x < 100 * out.confidence + 100

C5_Witness ==
    /\ pc = "ret"
    /\ arg = 5060
    /\ out.isDeepfake
    /\ out.confidence = 50

\* C6: get_frames on a source whose T frames all decode, with cap N = 80:
\* for T <= N every frame in order; for T > N exactly N frames with
\* strictly increasing indices from 0 to T-1, evenly spaced (two gaps
\* differ by at most one); never more than N frames.
C6_FrameSampler ==
    Sampled =>
        /\ Len(frames) <= 80
        /\ (canOpen /\ decodable = total) =>
               /\ total <= 80 => frames = [i \in 1..total |-> i - 1]
               /\ total > 80 =>
                      /\ Len(frames) = 80
                      /\ frames[1] = 0
                      /\ frames[80] = total - 1
                      /\ \A i \in 1..79 : frames[i] < frames[i + 1]
                      /\ \A i, j \in 1..79 :
                             (frames[i + 1] - frames[i])
                                 - (frames[j + 1] - frames[j]) <= 1

C6_Witness ==
    /\ pc = "gate"
    /\ canOpen
    /\ decodable = total
    /\ total > 160
    /\ Len(frames) = 80
    /\ frames[2] = 2
    /\ frames[80] = total - 1

\* C7: when the path exists but the decoder cannot open the video, the run
\* fails with an error distinct from the one a readable video of fewer
\* than 5 frames gets.
C7_UnreadableIsDistinct ==
    (Exited /\ hasArg /\ pathExists /\ ~canOpen) =>
        /\ IsError(stdout[1])
        /\ stdout[1] # ErrorResult(TooShortMessage)

\* C8 as stated: with at least 5 face samples the colour score is strictly
\* increasing in the temporal variance v for all v1 < v2 <= 15, and is 1.0
\* for every v >= 15.
C8_StrictlyIncreasing ==
    pc = "ret" =>
        LET v1 == TemporalVariance(arg[1])
            v2 == TemporalVariance(arg[2])
        IN /\ (v1 < v2 /\ v2 <= 1500) => out[1] < out[2]
           /\ v2 >= 1500 => out[2] = 1000

\* C8 amended: the colour score is 0 for every v <= 5, strictly increasing
\* in v for 5 <= v1 < v2 <= 15, 1.0 for every v >= 15, and nowhere
\* decreasing.
C8_IncreasingAboveFive ==
    pc = "ret" =>
        LET v1 == TemporalVariance(arg[1])
            v2 == TemporalVariance(arg[2])
        IN /\ (v1 < v2 /\ 500 <= v1 /\ v2 <= 1500) => out[1] < out[2]
           /\ v1 <= v2 => out[1] <= out[2]
           /\ v2 <= 500 => out[2] = 0
           /\ v2 >= 1500 => out[2] = 1000

C8_Witness ==
    /\ pc = "ret"
    /\ Len(arg[1]) >= 5
    /\ Len(arg[2]) >= 5
    /\ TemporalVariance(arg[1]) > 500
    /\ TemporalVariance(arg[1]) < TemporalVariance(arg[2])
    /\ TemporalVariance(arg[2]) < 1500
    /\ out[1] > 0
    /\ out[1] < out[2]

\* the three-way threshold on std/mean of the flow magnitudes
ThreeWay(flow) ==
    LET n == Len(flow)
        s == Sum(flow)
        q == SumSq(flow)
    IN IF 16 * (n * q - s * s) < s * s THEN 750
       ELSE IF 4 * (n * q - s * s) > 25 * s * s THEN 700
       ELSE 300

\* C9 as stated: with 3 or more flow samples of mean >= 0.01 the motion
\* score is the three-way threshold value, and it is the neutral 0.5 only
\* with fewer than 3 flow samples or a mean below 0.01.
C9_ThreeSamplesSuffice ==
    pc = "ret" =>
        IF Len(arg.flow) >= 3 /\ Sum(arg.flow) >= Len(arg.flow)
        THEN out = ThreeWay(arg.flow)
        ELSE out = 500

\* C9 amended: with 6 or more frames (5 or more flow samples) of mean flow
\* >= 0.01 the motion score is the three-way threshold value; with fewer
\* than 6 frames or a mean below 0.01 it is the neutral 0.5.
C9_SixFramesNeeded ==
    pc = "ret" =>
        IF Len(arg.frames) >= 6 /\ Sum(arg.flow) >= Len(arg.flow)
        THEN out = ThreeWay(arg.flow) /\ Len(arg.flow) >= 5
        ELSE out = 500

C9_Witness ==
    /\ pc = "ret"
    /\ Len(arg.frames) = 5
    /\ Len(arg.flow) = 4
    /\ Sum(arg.flow) >= Len(arg.flow)
    /\ out = 500

\* C10: in every success record the confidence is between 50 and 83,
\* because the probability lies in [18,83]: motion is in {0.3, 0.5, 0.7,
\* 0.75}, sharpness in {0.3, 0.5, 0.6, 0.7}, frequency in {0.3, 0.5, 0.7}
\* and the other three scores in [0,1].
C10_ConfidenceBand ==
    /\ "motion" \in DOMAIN scores =>
           scores["motion"] \in {300, 500, 700, 750}
    /\ "sharpness" \in DOMAIN scores =>
           scores["sharpness"] \in {300, 500, 600, 700}
    /\ "frequency" \in DOMAIN scores =>
           scores["frequency"] \in {300, 500, 700}
    /\ (DetectReturned /\ IsSuccess(result)) =>
           /\ probability >= 1800 /\ probability <= 8300
           /\ result.confidence >= 50 /\ result.confidence <= 83

C10_Witness ==
    /\ Exited
    /\ IsSuccess(stdout[1])
    /\ probability = 8300
    /\ stdout[1].confidence = 83

====
